---- MODULE Spec2Model ----
(***************************************************************************)
(* The tokenizer of src/parser/tokenizer.go as a state machine.            *)
(*                                                                         *)
(* Text is a sequence of bytes (integers 0..255), as the Go code scans a   *)
(* []byte.  A token's Value is the byte sequence of the Go string.         *)
(* The program state is text, remaining, line, column.  calls is the log   *)
(* kept by the caller that drives the tokenizer: one entry per Next()      *)
(* call since the last Load, holding the tokenizer's state when the call   *)
(* was made, the amount handed to advance and the token returned; loads is *)
(* the number of Load calls the caller has made on the instance.           *)
(***************************************************************************)
EXTENDS Integers, Sequences, FiniteSets, TLC

VARIABLES text, remaining, line, column, calls, loads

vars == <<text, remaining, line, column, calls, loads>>

---------------------------------------------------------------------------
\* Bytes the code names.
LF == 10          \* '\n'
Quote == 34       \* '"'
Backslash == 92   \* '\\'
Slash == 47       \* '/'
Colon == 58       \* ':'
Dot == 46         \* '.'
Underscore == 95  \* '_'
RuneSelf == 128   \* utf8.RuneSelf: bytes below it are ASCII

\* Token types, tokenizer.go:11-22.
TypeID == "ID"
TypeNumber == "Number"
TypeString == "String"
TypeKeyword == "Keyword"
TypeSymbol == "Symbol"
TypeNewline == "Newline"
TypeEOF == "EOF"
TypeComment == "Comment"
TypeWhitespace == "Whitespace"
TypeUnknown == "Unknown"

\* The symbol list with the one-character entries ahead of the
\* two-character ones: what listing a prefix first would do.
symbols_ShortFirst ==
  << <<61>>, <<62>>, <<60>>, <<43>>, <<45>>, <<42>>, <<47>>, <<94>>, <<37>>,
     <<44>>, <<40>>, <<41>>,
     <<43, 43>>, <<45, 45>>, <<62, 61>>, <<60, 61>>, <<33, 61>>, <<61, 61>>,
     <<61, 61>>, <<43, 61>>, <<45, 61>>, <<42, 61>>, <<47, 61>>, <<37, 61>> >>

\* tokenizer.go:54-55, in the order of the source (with its repeated "==").
symbols ==
  << <<43, 43>>, <<45, 45>>, <<62, 61>>, <<60, 61>>, <<33, 61>>, <<61, 61>>,
     <<61, 61>>, <<43, 61>>, <<45, 61>>, <<42, 61>>, <<47, 61>>, <<37, 61>>,
     <<61>>, <<62>>, <<60>>, <<43>>, <<45>>, <<42>>, <<47>>, <<94>>, <<37>>,
     <<44>>, <<40>>, <<41>> >>

\* The alternatives of keywordRegex, tokenizer.go:57, in their order:
\* if else end then goto and or not.
keywords ==
  << <<105, 102>>, <<101, 108, 115, 101>>, <<101, 110, 100>>,
     <<116, 104, 101, 110>>, <<103, 111, 116, 111>>, <<97, 110, 100>>,
     <<111, 114>>, <<110, 111, 116>> >>

---------------------------------------------------------------------------
\* Character classes of the regular expressions, as sets of bytes.
Letter == (97..122) \cup (65..90)              \* [a-zA-Z]
Digit == 48..57                                 \* [0-9]
IdentChar == Letter \cup Digit \cup {Underscore}  \* [a-zA-Z0-9_]
WordChar == IdentChar                           \* \b is that of ASCII \w
Blank == {32, 9}                                \* [ \t]
Whitespace == {32, 9, 13}                       \* [ \t\r]
NotLF == (0..255) \ {LF}                        \* [^\n]

NoMatch == -1

Min(S) == CHOOSE x \in S : \A y \in S : x <= y

\* Number of consecutive bytes of s, from index from (1-based), that are in
\* the class: a greedy X* of a regular expression.
RunLen(s, from, class) ==
  Min({j \in from..(Len(s) + 1) : j = Len(s) + 1 \/ s[j] \notin class}) - from

IsPrefix(p, s) == Len(p) <= Len(s) /\ SubSeq(s, 1, Len(p)) = p

\* whitespaceRegex ^[ \t\r]+ : the length of the match, or NoMatch.
whitespaceRegex(s) ==
  LET n == RunLen(s, 1, Whitespace)
  IN  IF n >= 1 THEN n ELSE NoMatch

\* commentRegex without its leading blanks: ^\/\/([^\n]*).
commentRegex_NoBlanks(s) ==
  IF Len(s) >= 2 /\ s[1] = Slash /\ s[2] = Slash
  THEN [whole |-> 2 + RunLen(s, 3, NotLF), group |-> 3]
  ELSE [whole |-> NoMatch, group |-> NoMatch]

\* commentRegex ^[ \t]*\/\/([^\n]*) : whole is the length of the match,
\* group the first index of its capture group ([^\n]*).
commentRegex(s) ==
  LET k == RunLen(s, 1, Blank)
  IN  IF Len(s) >= k + 2 /\ s[k + 1] = Slash /\ s[k + 2] = Slash
      THEN [whole |-> k + 2 + RunLen(s, k + 3, NotLF), group |-> k + 3]
      ELSE [whole |-> NoMatch, group |-> NoMatch]

\* keywordRegex without its trailing \b: ^\b(if|else|end|then|goto|and|or|not).
keywordRegex_NoBoundary(s) ==
  LET hits == {i \in 1..Len(keywords) : IsPrefix(keywords[i], s)}
  IN  IF hits = {} THEN NoMatch ELSE Len(keywords[Min(hits)])

\* keywordRegex ^\b(if|else|end|then|goto|and|or|not)\b : the length of the
\* match of the first alternative that matches, or NoMatch.  The leading \b
\* holds at the start of the slice when its first byte is a word character;
\* the trailing \b when the keyword ends the slice or a non-word byte follows.
keywordRegex(s) ==
  LET hit(i) == /\ IsPrefix(keywords[i], s)
                /\ s[1] \in WordChar
                /\ \/ Len(s) = Len(keywords[i])
                   \/ s[Len(keywords[i]) + 1] \notin WordChar
      hits == {i \in 1..Len(keywords) : hit(i)}
  IN  IF hits = {} THEN NoMatch ELSE Len(keywords[Min(hits)])

\* identifierRegex ^:?[a-zA-Z]+[a-zA-Z0-9_]* .
identifierRegex(s) ==
  LET c == IF Len(s) >= 1 /\ s[1] = Colon THEN 1 ELSE 0
      l == RunLen(s, c + 1, Letter)
  IN  IF l >= 1 THEN c + l + RunLen(s, c + l + 1, IdentChar) ELSE NoMatch

\* numberRegex ^[0-9]+(\.[0-9]+)? .
numberRegex(s) ==
  LET d == RunLen(s, 1, Digit)
  IN  IF d = 0 THEN NoMatch
      ELSE IF Len(s) >= d + 2 /\ s[d + 1] = Dot /\ s[d + 2] \in Digit
           THEN d + 1 + RunLen(s, d + 2, Digit)
           ELSE d

---------------------------------------------------------------------------
\* strings.ToLower, as Load calls it.  ASCII-only input is mapped byte by
\* byte.  Any other input goes through strings.Map(unicode.ToLower, s),
\* which decodes UTF-8: an invalid byte becomes U+FFFD (EF BF BD).  Of the
\* multi-byte runes the model decodes those led by 0xC3 (U+00C0..U+00FF),
\* the only lead byte of the input alphabets below, and U+FFFD itself, which
\* has no other case.
LowerASCII(b) == IF b \in 65..90 THEN b + 32 ELSE b

\* unicode.ToLower on U+00C0..U+00FF, given the continuation byte:
\* U+00C0..U+00DE except U+00D7 have their lower case 32 above.
LowerLatin1(cont) == IF cont \in 128..158 /\ cont # 151 THEN cont + 32 ELSE cont

RECURSIVE MapLower(_)
MapLower(s) ==
  IF s = <<>> THEN <<>>
  ELSE IF s[1] < RuneSelf THEN <<LowerASCII(s[1])>> \o MapLower(Tail(s))
  ELSE IF s[1] = 195 /\ Len(s) >= 2 /\ s[2] \in 128..191
       THEN <<195, LowerLatin1(s[2])>> \o MapLower(Tail(Tail(s)))
  ELSE IF Len(s) >= 3 /\ SubSeq(s, 1, 3) = <<239, 191, 189>>
       THEN <<239, 191, 189>> \o MapLower(SubSeq(s, 4, Len(s)))
  ELSE <<239, 191, 189>> \o MapLower(Tail(s))

ToLower(s) == MapLower(s)

\* string(b) for a byte b: the UTF-8 encoding of the rune with that value.
ByteToString(b) ==
  IF b < RuneSelf THEN <<b>> ELSE <<192 + (b \div 64), 128 + (b % 64)>>

---------------------------------------------------------------------------
\* What a recognizer hands back: nil, or the token with the amount of its
\* deferred advance (newline: the deferred function also bumps the line).
Nil == [ok |-> FALSE]

Found(tok, amount, isNewline) ==
  [ok |-> TRUE, token |-> tok, amount |-> amount, newline |-> isNewline]

\* newToken reading the column after the value was consumed.
newToken_AfterAdvance(typ, val) ==
  [Type |-> typ, Value |-> val,
   Position |-> [Line |-> line, Coloumn |-> column + Len(val)]]

newToken(typ, val) ==
  [Type |-> typ, Value |-> val,
   Position |-> [Line |-> line, Coloumn |-> column]]

getWhitespace ==
  LET found == whitespaceRegex(remaining)
  IN  IF found # NoMatch
      THEN Found(newToken(TypeWhitespace, SubSeq(remaining, 1, found)), found, FALSE)
      ELSE Nil

\* advance that moves the column and leaves the buffer where it was.
advance_NoSlice(col, rem, amount) ==
  [column |-> col + amount, remaining |-> rem]

\* advance: the column and the buffer after it.
advance(col, rem, amount) ==
  [column |-> col + amount, remaining |-> SubSeq(rem, amount + 1, Len(rem))]

\* The deferred function of getNewline without its t.column = 0.
newlineDeferred_NoColumnReset ==
  LET a == advance(column, remaining, 1)
  IN  [line |-> line + 1, column |-> a.column, remaining |-> a.remaining]

\* The deferred function of getNewline: t.line++, t.column = 0, t.advance(1).
newlineDeferred ==
  LET a == advance(0, remaining, 1)
  IN  [line |-> line + 1, column |-> a.column, remaining |-> a.remaining]

\* The deferred t.advance(amount) of the other recognizers.
advanceDeferred(amount) ==
  LET a == advance(column, remaining, amount)
  IN  [line |-> line, column |-> a.column, remaining |-> a.remaining]

\* getNewline deferring a plain t.advance(1): the line is never counted.
getNewline_NoLineIncrement ==
  IF Len(remaining) > 0 /\ remaining[1] = LF
  THEN Found(newToken(TypeNewline, <<>>), 1, FALSE)
  ELSE Nil

getNewline ==
  IF Len(remaining) > 0 /\ remaining[1] = LF
  THEN Found(newToken(TypeNewline, <<>>), 1, TRUE)
  ELSE Nil

getSymbol ==
  LET hits == {i \in 1..Len(symbols) : IsPrefix(symbols[i], remaining)}
  IN  IF hits # {}
      THEN Found(newToken(TypeSymbol, symbols[Min(hits)]), Len(symbols[Min(hits)]), FALSE)
      ELSE Nil

\* getComment taking the capture group of commentRegex (FindSubmatch, [1])
\* as the value.
getComment_Submatch ==
  LET m == commentRegex(remaining)
  IN  IF m.whole # NoMatch
      THEN Found(newToken(TypeComment, SubSeq(remaining, m.group, m.whole)), m.whole, FALSE)
      ELSE Nil

getComment ==
  LET found == commentRegex(remaining).whole
  IN  IF found # NoMatch
      THEN Found(newToken(TypeComment, SubSeq(remaining, 1, found)), found, FALSE)
      ELSE Nil

getKeyword ==
  LET found == keywordRegex(remaining)
  IN  IF found # NoMatch
      THEN Found(newToken(TypeKeyword, SubSeq(remaining, 1, found)), found, FALSE)
      ELSE Nil

getIdentifier ==
  LET found == identifierRegex(remaining)
  IN  IF found # NoMatch
      THEN Found(newToken(TypeID, SubSeq(remaining, 1, found)), found, FALSE)
      ELSE Nil

\* The loop of getStringConstant without its escaped flag: the first quote
\* ends the literal.
RECURSIVE stringScan_NoEscape(_, _, _)
stringScan_NoEscape(s, i, escaped) ==
  IF i + 2 > Len(s) THEN NoMatch
  ELSE IF s[i + 2] = Quote THEN i
  ELSE stringScan_NoEscape(s, i + 1, FALSE)

\* The loop of getStringConstant over remaining[1:]: i is the loop index
\* (0-based), so the byte looked at is s[i + 2] here.  The index of the
\* first unescaped quote, or NoMatch.
RECURSIVE stringScan(_, _, _)
stringScan(s, i, escaped) ==
  IF i + 2 > Len(s) THEN NoMatch
  ELSE IF escaped THEN stringScan(s, i + 1, FALSE)
  ELSE IF s[i + 2] = Backslash THEN stringScan(s, i + 1, TRUE)
  ELSE IF s[i + 2] = Quote THEN i
  ELSE stringScan(s, i + 1, FALSE)

\* getStringConstant with defer t.advance(i + 3).
getStringConstant_AdvancePastEnd ==
  IF Len(remaining) < 2 \/ remaining[1] # Quote THEN Nil
  ELSE LET i == stringScan(remaining, 0, FALSE)
       IN  IF i # NoMatch
           THEN Found(newToken(TypeString, SubSeq(remaining, 2, i + 1)), i + 3, FALSE)
           ELSE Nil

\* getStringConstant with value := string(t.remaining[1 : i+2]).
getStringConstant_ValueWithQuote ==
  IF Len(remaining) < 2 \/ remaining[1] # Quote THEN Nil
  ELSE LET i == stringScan(remaining, 0, FALSE)
       IN  IF i # NoMatch
           THEN Found(newToken(TypeString, SubSeq(remaining, 2, i + 2)), i + 2, FALSE)
           ELSE Nil

getStringConstant ==
  IF Len(remaining) < 2 \/ remaining[1] # Quote THEN Nil
  ELSE LET i == stringScan(remaining, 0, FALSE)
       IN  IF i # NoMatch
           THEN Found(newToken(TypeString, SubSeq(remaining, 2, i + 1)), i + 2, FALSE)
           ELSE Nil

getNumberConstant ==
  LET found == numberRegex(remaining)
  IN  IF found # NoMatch
      THEN Found(newToken(TypeNumber, SubSeq(remaining, 1, found)), found, FALSE)
      ELSE Nil

\* The body of Next with an end-of-input branch that moves the column on.
nextResult_EOFAdvances ==
  LET comment == getComment
      whitespace == getWhitespace
      keyword == getKeyword
      newline == getNewline
      symbol == getSymbol
      identifier == getIdentifier
      string == getStringConstant
      number == getNumberConstant
  IN  IF comment.ok THEN comment
      ELSE IF Len(remaining) = 0 THEN Found(newToken(TypeEOF, <<>>), 1, FALSE)
      ELSE IF whitespace.ok THEN whitespace
      ELSE IF keyword.ok THEN keyword
      ELSE IF newline.ok THEN newline
      ELSE IF symbol.ok THEN symbol
      ELSE IF identifier.ok THEN identifier
      ELSE IF string.ok THEN string
      ELSE IF number.ok THEN number
      ELSE Found(newToken(TypeUnknown, ByteToString(remaining[1])), 1, FALSE)

\* The body of Next with getWhitespace tried ahead of getComment.
nextResult_WhitespaceFirst ==
  LET comment == getComment
      whitespace == getWhitespace
      keyword == getKeyword
      newline == getNewline
      symbol == getSymbol
      identifier == getIdentifier
      string == getStringConstant
      number == getNumberConstant
  IN  IF Len(remaining) # 0 /\ whitespace.ok THEN whitespace
      ELSE IF comment.ok THEN comment
      ELSE IF Len(remaining) = 0 THEN Found(newToken(TypeEOF, <<>>), 0, FALSE)
      ELSE IF keyword.ok THEN keyword
      ELSE IF newline.ok THEN newline
      ELSE IF symbol.ok THEN symbol
      ELSE IF identifier.ok THEN identifier
      ELSE IF string.ok THEN string
      ELSE IF number.ok THEN number
      ELSE Found(newToken(TypeUnknown, ByteToString(remaining[1])), 1, FALSE)

\* The body of Next up to its return: the token and the deferred advance.
nextResult ==
  LET comment == getComment
      whitespace == getWhitespace
      keyword == getKeyword
      newline == getNewline
      symbol == getSymbol
      identifier == getIdentifier
      string == getStringConstant
      number == getNumberConstant
  IN  IF comment.ok THEN comment
      ELSE IF Len(remaining) = 0 THEN Found(newToken(TypeEOF, <<>>), 0, FALSE)
      ELSE IF whitespace.ok THEN whitespace
      ELSE IF keyword.ok THEN keyword
      ELSE IF newline.ok THEN newline
      ELSE IF symbol.ok THEN symbol
      ELSE IF identifier.ok THEN identifier
      ELSE IF string.ok THEN string
      ELSE IF number.ok THEN number
      ELSE Found(newToken(TypeUnknown, ByteToString(remaining[1])), 1, FALSE)

---------------------------------------------------------------------------
\* Bounds of the model: the inputs Load is given.
MaxLen == 3        \* inputs over the whole alphabet
MaxStrLen == 5     \* inputs of quotes, backslashes and letters
MaxComLen == 5     \* inputs of comments, blanks and newlines
MaxWordLen == 4    \* inputs of keywords, identifiers and numbers
MaxUtfLen == 3     \* inputs with upper case and non-ASCII bytes
MaxLiveLen == 3    \* inputs of the runs checked for termination
MaxLoads == 2      \* Load calls made on one instance
MaxEOF == 2        \* Next() calls made beyond one per byte of the buffer

\* \n space \t \r " / = > i f 1 #
Alphabet == {LF, 32, 9, 13, Quote, Slash, 61, 62, 105, 102, 49, 35}
\* " \ f \n
StrAlphabet == {Quote, Backslash, 102, LF}
\* space / f \n
ComAlphabet == {32, Slash, 102, LF}
\* i f _ 1 . :
WordAlphabet == {105, 102, Underscore, 49, Dot, Colon}
\* 0xC3 0x89 (together: U+00C9) I F "
UtfAlphabet == {195, 137, 73, 70, Quote}

SeqsUpTo(S, n) == UNION {[1..k -> S] : k \in 0..n}

Inputs ==
  SeqsUpTo(Alphabet, MaxLen) \cup SeqsUpTo(StrAlphabet, MaxStrLen)
    \cup SeqsUpTo(ComAlphabet, MaxComLen) \cup SeqsUpTo(WordAlphabet, MaxWordLen)
    \cup SeqsUpTo(UtfAlphabet, MaxUtfLen)

\* The inputs of the runs checked for termination: a byte or two for each
\* branch of Next (\n space " / = i f 1 #).
LiveInputs == SeqsUpTo({LF, 32, Quote, Slash, 61, 105, 102, 49, 35}, MaxLiveLen)

\* The inputs a tokenizer that was already loaded is loaded with again.
ReloadInputs == {<<>>, <<LF, 105, 102>>, <<73, 102, LF, Quote>>}

---------------------------------------------------------------------------
\* NewTokenizer: the zero values of the fields.
Init ==
  /\ text = <<>>
  /\ remaining = <<>>
  /\ line = 0
  /\ column = 0
  /\ calls = <<>>
  /\ loads = 0

\* Load without its t.column = 1.
Load_KeepColumn(input) ==
  /\ column' = column
  /\ text' = input
  /\ remaining' = ToLower(input)
  /\ line' = 1
  /\ calls' = <<>>
  /\ loads' = loads + 1

\* Load keeping the input as it is: t.remaining = []byte(input).
Load_NoLower(input) ==
  /\ column' = 1
  /\ text' = input
  /\ remaining' = input
  /\ line' = 1
  /\ calls' = <<>>
  /\ loads' = loads + 1

Load(input) ==
  /\ column' = 1
  /\ text' = input
  /\ remaining' = ToLower(input)
  /\ line' = 1
  /\ calls' = <<>>
  /\ loads' = loads + 1

\* Next.  The caller stops after MaxEOF calls more than the buffer has bytes.
TokenizerNext ==
  /\ Len(calls) < Len(ToLower(text)) + MaxEOF
  /\ LET r == nextResult
         d == IF r.newline THEN newlineDeferred ELSE advanceDeferred(r.amount)
     IN  /\ line' = d.line
         /\ column' = d.column
         /\ remaining' = d.remaining
         /\ calls' = Append(calls, [remaining |-> remaining, line |-> line,
                                    column |-> column, amount |-> r.amount,
                                    token |-> r.token])
         /\ UNCHANGED <<text, loads>>

LoadInputs == IF loads = 0 THEN Inputs ELSE ReloadInputs

\* The caller loads an instance at most MaxLoads times.
Next ==
  \/ loads < MaxLoads /\ \E input \in LoadInputs : Load(input)
  \/ TokenizerNext

Spec == Init /\ [][Next]_vars

\* One tokenizer loaded at most once and then driven by Next() calls alone,
\* every call the caller has left being made.
NextOnce ==
  \/ loads = 0 /\ calls = <<>> /\ \E input \in LiveInputs : Load(input)
  \/ TokenizerNext

LiveSpec == Init /\ [][NextOnce]_vars /\ WF_vars(TokenizerNext)

---------------------------------------------------------------------------
\* The state a logged call left behind: that of the next logged call, or
\* the current one after the last call.
After(k) ==
  IF k < Len(calls)
  THEN [remaining |-> calls[k + 1].remaining, line |-> calls[k + 1].line,
        column |-> calls[k + 1].column]
  ELSE [remaining |-> remaining, line |-> line, column |-> column]

Loaded == line >= 1

Max(S) == CHOOSE x \in S : \A y \in S : x >= y

\* C1: after Load, repeated Next() calls eventually return an EOF token, and
\* every call after an EOF token returns an EOF token again.
LastIsEOF == calls # <<>> /\ calls[Len(calls)].token.Type = TypeEOF

C1_EOFReachedAndPermanent ==
  /\ <>[]LastIsEOF
  /\ [][LastIsEOF => LastIsEOF']_vars

C1_Witness ==
  /\ Loaded /\ Len(calls) >= 4
  /\ calls[Len(calls) - 2].token.Type # TypeEOF
  /\ calls[Len(calls) - 1].token.Type = TypeEOF
  /\ calls[Len(calls)].token.Type = TypeEOF

---------------------------------------------------------------------------
\* What the claims speak of, stated over a buffer s as it stood when a call
\* was made.

\* The entries of the symbol list that are a prefix of s.
SymbolPrefixes(s) == {i \in 1..Len(symbols) : IsPrefix(symbols[i], s)}

\* The keyword spellings that are a prefix of s.
KeywordPrefixes(s) == {i \in 1..Len(keywords) : IsPrefix(keywords[i], s)}

\* The lengths the eight recognizers match at the start of s.
RecognizerSpans(s) ==
  ({commentRegex(s).whole, whitespaceRegex(s), keywordRegex(s),
    identifierRegex(s), numberRegex(s)} \ {NoMatch})
    \cup (IF Len(s) > 0 /\ s[1] = LF THEN {1} ELSE {})
    \cup {Len(symbols[i]) : i \in SymbolPrefixes(s)}
    \cup (IF Len(s) >= 2 /\ s[1] = Quote /\ stringScan(s, 0, FALSE) # NoMatch
          THEN {stringScan(s, 0, FALSE) + 2} ELSE {})

\* The byte at index j of a literal opened at index 1 is escaped: a
\* backslash that is not itself escaped precedes it.
RECURSIVE IsEscaped(_, _)
IsEscaped(s, j) == j > 2 /\ s[j - 1] = Backslash /\ ~IsEscaped(s, j - 1)

UnescapedQuotes(s) == {j \in 2..Len(s) : s[j] = Quote /\ ~IsEscaped(s, j)}

StartsWithQuote(s) == Len(s) >= 1 /\ s[1] = Quote

\* s starts with a comment: blanks, then "//".
CommentAt(s) ==
  LET b == RunLen(s, 1, Blank)
  IN  Len(s) >= b + 2 /\ s[b + 1] = Slash /\ s[b + 2] = Slash

\* The index of the first newline of s, Len(s) + 1 when it has none.
FirstLF(s) == Min({j \in 1..(Len(s) + 1) : j = Len(s) + 1 \/ s[j] = LF})

\* C2: with n > 0 bytes remaining a Next() call consumes between 1 and n of
\* them, whatever the input, and what no recognizer matches comes back as an
\* Unknown token of the one character at the cursor.
C2_NextConsumesWithinBuffer ==
  \A k \in 1..Len(calls) :
    LET e == calls[k]
        n == Len(e.remaining)
    IN  n > 0 =>
          /\ 1 <= e.amount /\ e.amount <= n
          /\ After(k).remaining = SubSeq(e.remaining, e.amount + 1, n)
          /\ Len(After(k).remaining) = n - e.amount
          /\ RecognizerSpans(e.remaining) = {} =>
               /\ e.token.Type = TypeUnknown
               /\ e.token.Value = ByteToString(e.remaining[1])
               /\ e.amount = 1

C2_Witness ==
  /\ Loaded
  /\ \E k \in 1..Len(calls) :
       /\ calls[k].token.Type = TypeUnknown /\ Len(calls[k].remaining) >= 2
  /\ \E k \in 1..Len(calls) :
       /\ calls[k].amount >= 2 /\ calls[k].amount = Len(calls[k].remaining)

\* C3: the span a Next() call consumes is at least as long as the span any
\* of the recognizers matches at the same cursor.
C3_FirstMatchIsLongest ==
  \A k \in 1..Len(calls) :
    Len(calls[k].remaining) > 0 =>
      \A span \in RecognizerSpans(calls[k].remaining) : calls[k].amount >= span

C3_Witness ==
  /\ Loaded
  /\ \E k \in 1..Len(calls) :
       /\ Cardinality(RecognizerSpans(calls[k].remaining)) >= 2
       /\ calls[k].amount = Max(RecognizerSpans(calls[k].remaining))

\* C4: a Symbol token is the first entry of the symbol list that is a prefix
\* of the remaining text, which is also the longest such entry; ">=" at the
\* cursor is one Symbol token, ">" alone is the Symbol token ">", and no two
\* consecutive Symbol tokens spell an entry of the list between them.
C4_SymbolFirstIsLongest ==
  \A k \in 1..Len(calls) :
    LET e == calls[k]
        P == SymbolPrefixes(e.remaining)
    IN  /\ e.token.Type = TypeSymbol =>
             /\ P # {}
             /\ e.token.Value = symbols[Min(P)]
             /\ e.amount = Len(e.token.Value)
             /\ \A i \in P : Len(symbols[i]) <= Len(e.token.Value)
        /\ IsPrefix(<<62, 61>>, e.remaining) =>
             e.token.Type = TypeSymbol /\ e.token.Value = <<62, 61>>
        /\ e.remaining = <<62>> =>
             e.token.Type = TypeSymbol /\ e.token.Value = <<62>>
        /\ (k < Len(calls) /\ e.token.Type = TypeSymbol
              /\ calls[k + 1].token.Type = TypeSymbol) =>
             \A i \in 1..Len(symbols) :
               symbols[i] # e.token.Value \o calls[k + 1].token.Value

C4_Witness ==
  /\ Loaded
  /\ \E k \in 1..Len(calls) :
       /\ calls[k].token.Type = TypeSymbol
       /\ calls[k].token.Value = <<62, 61>>
       /\ Cardinality(SymbolPrefixes(calls[k].remaining)) >= 2

\* C5: a Keyword token is one of the keyword spellings at the cursor with no
\* letter, digit or underscore after it; a keyword spelling that is followed
\* by one comes back as a single Identifier token covering the whole word.
C5_KeywordBoundary ==
  \A k \in 1..Len(calls) :
    LET e == calls[k]
        s == e.remaining
    IN  /\ e.token.Type = TypeKeyword =>
             \E i \in KeywordPrefixes(s) :
               /\ e.token.Value = keywords[i]
               /\ e.amount = Len(keywords[i])
               /\ \/ Len(s) = Len(keywords[i])
                  \/ s[Len(keywords[i]) + 1] \notin IdentChar
        /\ \A i \in KeywordPrefixes(s) :
             (Len(s) > Len(keywords[i]) /\ s[Len(keywords[i]) + 1] \in IdentChar) =>
               /\ e.token.Type = TypeID
               /\ e.token.Value = SubSeq(s, 1, RunLen(s, 1, IdentChar))
               /\ e.amount = Len(e.token.Value)

C5_Witness ==
  /\ Loaded
  /\ \E k \in 1..Len(calls) :
       /\ KeywordPrefixes(calls[k].remaining) # {}
       /\ calls[k].token.Type = TypeID
       /\ Len(calls[k].token.Value) >= 3
       /\ Len(calls[k].remaining) > Len(calls[k].token.Value)

\* C6: at an opening quote with an unescaped quote after it, Next() returns
\* one String token whose value is the raw text between the opening quote
\* and the first unescaped quote, and the cursor moves by len(value) + 2.
C6_StringLiteral ==
  \A k \in 1..Len(calls) :
    LET e == calls[k]
        s == e.remaining
    IN  (StartsWithQuote(s) /\ UnescapedQuotes(s) # {}) =>
          LET q == Min(UnescapedQuotes(s))
          IN  /\ e.token.Type = TypeString
              /\ e.token.Value = SubSeq(s, 2, q - 1)
              /\ e.amount = Len(e.token.Value) + 2
              /\ After(k).remaining = SubSeq(s, q + 1, Len(s))

C6_Witness ==
  /\ Loaded
  /\ \E k \in 1..Len(calls) :
       /\ calls[k].token.Type = TypeString
       /\ \E j \in 1..(Len(calls[k].token.Value) - 1) :
            /\ calls[k].token.Value[j] = Backslash
            /\ calls[k].token.Value[j + 1] = Quote
       /\ After(k).remaining # <<>>

\* C7: at an opening quote with no unescaped quote after it, Next() returns
\* the quote as a one-character Unknown token, and neither that call nor any
\* later one returns a String token.
C7_UnterminatedString ==
  \A k \in 1..Len(calls) :
    LET e == calls[k]
        s == e.remaining
    IN  (StartsWithQuote(s) /\ UnescapedQuotes(s) = {}) =>
          /\ e.token.Type = TypeUnknown
          /\ e.token.Value = <<Quote>>
          /\ e.amount = 1
          /\ \A j \in k..Len(calls) : calls[j].token.Type # TypeString

C7_Witness ==
  /\ Loaded /\ LastIsEOF
  /\ StartsWithQuote(calls[1].remaining)
  /\ UnescapedQuotes(calls[1].remaining) = {}
  /\ \E j \in 3..Len(calls[1].remaining) : calls[1].remaining[j] = Quote

\* C8 as the spec states it: at a comment that a newline ends, Next() returns
\* a Comment token whose value is the text after the "//" marker only, and
\* the next call returns a Newline token.
C8_CommentValueStripped ==
  \A k \in 1..Len(calls) :
    LET e == calls[k]
        s == e.remaining
        b == RunLen(s, 1, Blank)
    IN  (CommentAt(s) /\ FirstLF(s) <= Len(s)) =>
          /\ e.token.Type = TypeComment
          /\ e.token.Value = SubSeq(s, b + 3, FirstLF(s) - 1)
          /\ k < Len(calls) => calls[k + 1].token.Type = TypeNewline

\* C8 as the code has it: at a comment that a newline ends, Next() returns a
\* Comment token whose value is the whole matched text, the leading blanks
\* and the "//" marker included, up to but excluding the newline, and the
\* next call returns a Newline token.
C8_CommentValueWhole ==
  \A k \in 1..Len(calls) :
    LET e == calls[k]
        s == e.remaining
    IN  (CommentAt(s) /\ FirstLF(s) <= Len(s)) =>
          /\ e.token.Type = TypeComment
          /\ e.token.Value = SubSeq(s, 1, FirstLF(s) - 1)
          /\ e.amount = FirstLF(s) - 1
          /\ k < Len(calls) => calls[k + 1].token.Type = TypeNewline

C8_Witness ==
  /\ Loaded
  /\ \E k \in 1..(Len(calls) - 1) :
       /\ calls[k].token.Type = TypeComment
       /\ calls[k].remaining[1] \in Blank
       /\ calls[k].amount > RunLen(calls[k].remaining, 1, Blank) + 2
       /\ calls[k + 1].token.Type = TypeNewline

\* C9: the Position of every token is the tokenizer's line and column as
\* they were when the Next() call that returned it was made.
C9_PositionBeforeConsume ==
  \A k \in 1..Len(calls) :
    calls[k].token.Position =
      [Line |-> calls[k].line, Coloumn |-> calls[k].column]

C9_Witness ==
  /\ Loaded
  /\ \E k \in 1..Len(calls) :
       /\ calls[k].amount >= 2
       /\ After(k).column = calls[k].column + calls[k].amount
  /\ \E k \in 1..Len(calls) :
       /\ calls[k].token.Type = TypeNewline
       /\ After(k).line = calls[k].line + 1

\* C10: the positions of consecutive tokens do not decrease in (line,
\* column) order, and a token on a later line than the one before it is at
\* column 1.
C10_PositionsMonotonic ==
  \A k \in 1..(Len(calls) - 1) :
    LET p == calls[k].token.Position
        q == calls[k + 1].token.Position
    IN  /\ \/ q.Line = p.Line /\ q.Coloumn >= p.Coloumn
           \/ q.Line > p.Line
        /\ q.Line > p.Line => q.Coloumn = 1

C10_Witness ==
  /\ Loaded
  /\ \E k \in 1..(Len(calls) - 1) :
       /\ calls[k + 1].token.Position.Line > calls[k].token.Position.Line
       /\ calls[k].token.Position.Coloumn > 1
       /\ calls[k + 1].token.Type # TypeEOF

---------------------------------------------------------------------------
\* The buffer Load made of the text, and where in it a logged call began.
Buffer == ToLower(text)

Offset(k) == Len(Buffer) - Len(calls[k].remaining)

\* The indices of the newlines among the first n bytes of s.
NewlinesBefore(s, n) == {j \in 1..n : s[j] = LF}

\* The line and column of the byte after the first n bytes of s: one more
\* than the newlines before it, one more than the bytes since the last one.
SourcePosition(s, n) ==
  LET nl == NewlinesBefore(s, n)
  IN  [Line |-> 1 + Cardinality(nl),
       Coloumn |-> 1 + n - (IF nl = {} THEN 0 ELSE Max(nl))]

\* C11: the Position of every token returned after Load is the place in the
\* source where the token begins, whatever tokens precede it.
C11_PositionIsSourceLocation ==
  Loaded =>
    \A k \in 1..Len(calls) :
      calls[k].token.Position = SourcePosition(Buffer, Offset(k))

\* The buffer the first call since Load was made on (the current one when
\* none was made yet), with its line and column.
FirstState ==
  IF calls = <<>>
  THEN [remaining |-> remaining, line |-> line, column |-> column]
  ELSE [remaining |-> calls[1].remaining, line |-> calls[1].line,
        column |-> calls[1].column]

IsSuffix(t, s) == Len(t) <= Len(s) /\ SubSeq(s, Len(s) - Len(t) + 1, Len(s)) = t

\* C12: after Load(s) the tokenizer scans what it scans after
\* Load(lowercase(s)), from the same line and column, so the tokens are the
\* same; "IF" comes back as the Keyword token "if", and no token value holds
\* an upper-case letter A-Z, String values included.
C12_CaseInsensitive ==
  Loaded =>
    /\ FirstState = [remaining |-> ToLower(ToLower(text)), line |-> 1, column |-> 1]
    /\ IsSuffix(remaining, ToLower(ToLower(text)))
    /\ (text = <<73, 70>> /\ calls # <<>>) =>
         calls[1].token = [Type |-> TypeKeyword, Value |-> <<105, 102>>,
                           Position |-> [Line |-> 1, Coloumn |-> 1]]
    /\ \A k \in 1..Len(calls) :
         \A j \in 1..Len(calls[k].token.Value) :
           calls[k].token.Value[j] \notin 65..90

C12_Witness ==
  /\ Loaded
  /\ text # ToLower(text)
  /\ \E k \in 1..Len(calls) :
       /\ calls[k].token.Type = TypeString
       /\ \E j \in 1..Len(calls[k].token.Value) : calls[k].token.Value[j] \in 97..122

\* The tokens a freshly created tokenizer returns after Load("\nif"): a
\* Newline, the Keyword if on line 2, then EOF for good.
TokensOfNewlineIf ==
  << [Type |-> TypeNewline, Value |-> <<>>, Position |-> [Line |-> 1, Coloumn |-> 1]],
     [Type |-> TypeKeyword, Value |-> <<105, 102>>, Position |-> [Line |-> 2, Coloumn |-> 1]],
     [Type |-> TypeEOF, Value |-> <<>>, Position |-> [Line |-> 2, Coloumn |-> 3]] >>

\* C13: whatever was loaded and scanned before, Load(b) leaves line 1,
\* column 1 and the cursor at the start of (the lowercased) b, as on a fresh
\* tokenizer, and the tokens that follow are those of a fresh tokenizer.
C13_LoadResets ==
  loads >= 1 =>
    /\ FirstState = [remaining |-> ToLower(text), line |-> 1, column |-> 1]
    /\ text = <<LF, 105, 102>> =>
         \A k \in 1..Len(calls) :
           calls[k].token = TokensOfNewlineIf[IF k < 3 THEN k ELSE 3]

C13_Witness ==
  /\ loads >= 2
  /\ text = <<LF, 105, 102>>
  /\ Len(calls) >= 4

\* C14: with no text left Next() returns an EOF token with an empty value
\* and moves neither the cursor nor the line nor the column, so all the EOF
\* tokens of a run carry one Position.
C14_EOFDoesNotAdvance ==
  \A k \in 1..Len(calls) :
    LET e == calls[k]
    IN  /\ e.remaining = <<>> =>
             /\ e.token.Type = TypeEOF
             /\ e.token.Value = <<>>
             /\ e.amount = 0
             /\ After(k) = [remaining |-> <<>>, line |-> e.line, column |-> e.column]
        /\ \A j \in 1..k :
             (calls[j].token.Type = TypeEOF /\ e.token.Type = TypeEOF) =>
               calls[j].token.Position = e.token.Position

C14_Witness ==
  /\ Loaded /\ Len(calls) >= 3
  /\ calls[Len(calls) - 2].token.Type # TypeEOF
  /\ calls[Len(calls) - 1].token.Type = TypeEOF
  /\ calls[Len(calls)].token.Type = TypeEOF
  /\ calls[Len(calls)].token.Position.Coloumn > 1
  /\ column = calls[Len(calls)].token.Position.Coloumn

\* C15: a Next() call that returns a Newline token (empty value, the one
\* '\n' consumed) adds 1 to the line and leaves the column at 1; a call that
\* returns any other token leaves the line and adds the number of bytes it
\* consumed to the column; after Load every token is at line >= 1 and
\* column >= 1.
C15_LineOnlyByNewline ==
  \A k \in 1..Len(calls) :
    LET e == calls[k]
        a == After(k)
    IN  /\ e.token.Type = TypeNewline =>
             /\ e.token.Value = <<>>
             /\ e.amount = 1
             /\ e.remaining[1] = LF
             /\ a.remaining = Tail(e.remaining)
             /\ a.line = e.line + 1
             /\ a.column = 1
        /\ e.token.Type # TypeNewline =>
             /\ a.line = e.line
             /\ a.column = e.column + e.amount
             /\ e.amount = Len(e.remaining) - Len(a.remaining)
        /\ Loaded =>
             e.token.Position.Line >= 1 /\ e.token.Position.Coloumn >= 1

C15_Witness ==
  /\ Loaded
  /\ \E k \in 1..(Len(calls) - 1) :
       /\ calls[k].token.Type = TypeNewline
       /\ calls[k].column > 1
       /\ calls[k + 1].token.Type # TypeNewline
       /\ calls[k + 1].amount >= 2
       /\ After(k + 1).line = calls[k].line + 1

\* C16: at blanks followed by "//" Next() returns one Comment token that
\* consumes the blanks, the "//" and all up to the next newline or the end
\* of the input: the blanks are not a Whitespace token of their own, and no
\* two consecutive Symbol tokens are "/" and "/".
C16_CommentFirst ==
  \A k \in 1..Len(calls) :
    LET e == calls[k]
        s == e.remaining
    IN  /\ CommentAt(s) =>
             /\ e.token.Type = TypeComment
             /\ e.amount = FirstLF(s) - 1
             /\ After(k).remaining = SubSeq(s, FirstLF(s), Len(s))
        /\ (k < Len(calls) /\ e.token.Type = TypeSymbol
              /\ calls[k + 1].token.Type = TypeSymbol) =>
             ~(e.token.Value = <<Slash>> /\ calls[k + 1].token.Value = <<Slash>>)

C16_Witness ==
  /\ Loaded
  /\ \E k \in 1..Len(calls) :
       /\ calls[k].token.Type = TypeComment
       /\ RunLen(calls[k].remaining, 1, Blank) >= 1
       /\ After(k).remaining = <<>>
  /\ \E k \in 1..Len(calls) : calls[k].token.Type = TypeNewline

\* The text a token stands for: its value, between quotes for a String
\* token, the newline for a Newline token (an EOF token stands for none).
ConsumedText(tok) ==
  IF tok.Type = TypeString THEN <<Quote>> \o tok.Value \o <<Quote>>
  ELSE IF tok.Type = TypeNewline THEN <<LF>>
  ELSE tok.Value

\* The texts of the tokens of the first n logged calls, in a row.
RECURSIVE ConsumedUpTo(_)
ConsumedUpTo(n) ==
  IF n = 0 THEN <<>> ELSE ConsumedUpTo(n - 1) \o ConsumedText(calls[n].token)

\* C17: the buffer left is always a suffix of the lowercased input, each
\* call takes up where the one before stopped, and the texts of the tokens
\* returned so far followed by the buffer left are the lowercased input (so,
\* at the first EOF token, the texts of the tokens are the lowercased input).
C17_LosslessPartition ==
  Loaded =>
    /\ IsSuffix(remaining, Buffer)
    /\ \A k \in 1..Len(calls) :
         /\ IsSuffix(calls[k].remaining, Buffer)
         /\ After(k).remaining =
              SubSeq(calls[k].remaining, calls[k].amount + 1, Len(calls[k].remaining))
    /\ ConsumedUpTo(Len(calls)) \o remaining = Buffer

====
